---------------------------- MODULE Spec2Model ----------------------------
(***************************************************************************)
(* Model of the Student Grade Analyzer pipeline (src/sql_agent.py):        *)
(* parse_query -> validate_sql -> [execute_query] -> generate_response,    *)
(* driven by the graph built in _build_graph.                              *)
(*                                                                         *)
(* Python strings that the code inspects (the generated SQL) are sequences *)
(* of one-character strings, so strip / upper / startswith / endswith /    *)
(* "in" are computed character by character.  Messages the code only       *)
(* builds (f-strings) are sequences of fragments.  Optional[T] is a        *)
(* sequence of length 0 (None) or 1 (the value).                           *)
(***************************************************************************)
EXTENDS Naturals, Sequences, FiniteSets, TLC

VARIABLES
    state,      \* run -> StudentGradeState of that run
    pc,         \* run -> node the graph will run next ("idle" before run())
    db,         \* the real store at self.db_path
    obs         \* run -> what the run has done so far (history, not program state)

vars == <<state, pc, db, obs>>

(* ------------------------------ bounds -------------------------------- *)
\* the language model's reply is a concatenation of at most MaxParts segments
MaxParts == 3

(* --------------------------- Optional[T] ------------------------------ *)
None == <<>>
Some(x) == <<x>>

(* ------------------------- Python str methods ------------------------- *)
LowerLetters == <<"a","b","c","d","e","f","g","h","i","j","k","l","m","n","o","p","q","r","s","t","u","v","w","x","y","z">>
UpperLetters == <<"A","B","C","D","E","F","G","H","I","J","K","L","M","N","O","P","Q","R","S","T","U","V","W","X","Y","Z">>

UpperChar(c) ==
    IF \E i \in DOMAIN LowerLetters : LowerLetters[i] = c
    THEN UpperLetters[CHOOSE i \in DOMAIN LowerLetters : LowerLetters[i] = c]
    ELSE c

\* str.upper()
Upper(s) == [i \in 1..Len(s) |-> UpperChar(s[i])]

IsSpace(c) == c \in {" ", "\n", "\t", "\r"}

RECURSIVE LStrip(_)
LStrip(s) == IF s # <<>> /\ IsSpace(Head(s)) THEN LStrip(Tail(s)) ELSE s

RECURSIVE RStrip(_)
RStrip(s) == IF s # <<>> /\ IsSpace(s[Len(s)]) THEN RStrip(SubSeq(s, 1, Len(s) - 1)) ELSE s

\* str.strip()
Strip(s) == RStrip(LStrip(s))

\* str.startswith(p), str.endswith(p), p in s
StartsWith(s, p) == Len(s) >= Len(p) /\ SubSeq(s, 1, Len(p)) = p
EndsWith(s, p) == Len(s) >= Len(p) /\ SubSeq(s, Len(s) - Len(p) + 1, Len(s)) = p
Contains(s, p) == \E i \in 1..(Len(s) + 1 - Len(p)) : SubSeq(s, i, i + Len(p) - 1) = p

\* s[:-1]
DropLast(s) == SubSeq(s, 1, Len(s) - 1)

(* ----------------------------- keywords ------------------------------- *)
kwSELECT == <<"S","E","L","E","C","T">>
kwDROP == <<"D","R","O","P">>
kwDELETE == <<"D","E","L","E","T","E">>
kwINSERT == <<"I","N","S","E","R","T">>
kwUPDATE == <<"U","P","D","A","T","E">>
kwALTER == <<"A","L","T","E","R">>
kwCREATE == <<"C","R","E","A","T","E">>
kwTRUNCATE == <<"T","R","U","N","C","A","T","E">>
Semicolon == <<";">>

\* dangerous_keywords, in list order; name is the text put into the message
dangerous_keywords ==
    << [name |-> "DROP", chars |-> kwDROP],
       [name |-> "DELETE", chars |-> kwDELETE],
       [name |-> "INSERT", chars |-> kwINSERT],
       [name |-> "UPDATE", chars |-> kwUPDATE],
       [name |-> "ALTER", chars |-> kwALTER],
       [name |-> "CREATE", chars |-> kwCREATE],
       [name |-> "TRUNCATE", chars |-> kwTRUNCATE] >>

(* ------------------- replies of the language model -------------------- *)
SegSelectAll == <<"S","E","L","E","C","T"," ","*"," ","F","R","O","M"," ","s","t","u","d","e","n","t","s">>
SegSelectOne == <<"s","e","l","e","c","t"," ","1">>
SegDrop == <<"D","R","O","P"," ","T","A","B","L","E"," ","s","t","u","d","e","n","t","s">>
SegQuoted == <<"'","U","p","d","a","t","e","'">>
SegPragma == <<"P","R","A","G","M","A"," ","u","s","e","r","_","v","e","r","s","i","o","n","=","3">>
SegSpace == <<" ">>
\* the backquote character is written "~" (a backquote cannot appear in a string here)
FenceOpen == <<"~","~","~","s","q","l">>
FenceClose == <<"~","~","~">>

Segments ==
    { SegSelectAll, SegSelectOne, SegDrop, SegQuoted, SegPragma,
      SegSpace, Semicolon, FenceOpen, FenceClose }

RECURSIVE Concats(_)
Concats(n) ==
    IF n = 0 THEN { <<>> }
    ELSE LET prev == Concats(n - 1)
         IN  prev \cup { p \o s : p \in prev, s \in Segments }

\* statements the translator can also write: one with two columns of the same name,
\* one that calls random(), one that selects no row
SegSelectTwice == <<"s","e","l","e","c","t"," ","1",",","1">>
SegSelectRandom == <<"s","e","l","e","c","t"," ","r","a","n","d","o","m","(",")">>
SegSelectNone == SegSelectAll \o <<" ","L","I","M","I","T"," ","0">>
Statements == { SegSelectTwice, SegSelectRandom, SegSelectNone, SegSelectTwice \o Semicolon }

Candidates == Concats(MaxParts) \cup Statements

\* response.content of self.llm.invoke in parse_query, or the exception it raises
TranslatorReplies ==
    { [raised |-> FALSE, content |-> c, message |-> ""] : c \in Candidates }
    \cup { [raised |-> TRUE, content |-> <<>>, message |-> "Connection error."] }

\* response.content of self.llm.invoke in generate_response, or the exception
SynthesizerReplies ==
    { [raised |-> FALSE, content |-> c, message |-> ""] :
          c \in { <<"A","l","i","c","e",":"," ","8","5">>, <<" ">> } }
    \cup { [raised |-> TRUE, content |-> <<>>, message |-> "Rate limit reached."] }

Questions == { <<"What grades did Alice get?">> }

Runs == { "r1", "r2" }

(* -------------------------- pipeline state ---------------------------- *)
\* run(): initial_state
initial_state(query) ==
    [ query |-> query,
      sql_query |-> None,
      validation_result |-> None,
      query_result |-> None,
      response |-> None,
      error |-> None ]

\* truthiness of state.get("error"), state.get("validation_result"), query_result
ErrorSet(s) == s.error # None /\ s.error[1] # <<>>
IsValid(s) == s.validation_result = Some(TRUE)
\* variant: the test is "query_result is not None"
HasRows_not_none(s) == s.query_result # None
HasRows(s) == s.query_result # None /\ s.query_result[1] # <<>>

(* ------------------------- node 1: parse_query ------------------------ *)
\* {**state, k: v, ...}: the returned dict is the state with the listed keys replaced
Apply(s, updates) == [f \in DOMAIN s |-> IF f \in DOMAIN updates THEN updates[f] ELSE s[f]]
\* variant: the pass-through return clears the error ({**state, "error": None})
NoUpdates_clears == [error |-> None]

\* return state
NoUpdates == <<>>

\* the two re.sub calls: a leading sql fence with the whitespace after it, and a
\* trailing fence with the whitespace before it, are removed
StripFenceOpen(s) == IF StartsWith(s, FenceOpen) THEN LStrip(SubSeq(s, Len(FenceOpen) + 1, Len(s))) ELSE s
StripFenceClose(s) == IF EndsWith(s, FenceClose) THEN RStrip(SubSeq(s, 1, Len(s) - Len(FenceClose))) ELSE s

\* variant: the except branch returns the state without recording the error
ParseFailed_swallowed(message) == NoUpdates

\* the except branch of parse_query
ParseFailed(message) == [error |-> Some(<<"Error parsing query: ", message>>)]

\* Result: the state returned and the keys the returned dict sets.
parse_query(s, reply) ==
    LET updates ==
            IF ~reply.raised
            THEN [ sql_query |-> Some(Strip(StripFenceClose(StripFenceOpen(Strip(reply.content))))),
                   error |-> None ]
            ELSE ParseFailed(reply.message)
    IN  [state |-> Apply(s, updates), wrote |-> DOMAIN updates]

(* ------------------------- the sqlite3 engine ------------------------- *)
\* A database: whether the file exists, its tables, the rows of students (id, name,
\* subject, grade; numbers written as numerals) and the user_version header field.
AbsentDb == [exists |-> FALSE, tables |-> {}, students |-> <<>>, user_version |-> "0"]
EmptyFileDb == [AbsentDb EXCEPT !.exists = TRUE]
EmptyTableDb == [EmptyFileDb EXCEPT !.tables = {"students"}]
SeededDb ==
    [EmptyTableDb EXCEPT !.students = << <<"1", "Alice", "Math", "85">>, <<"4", "Bob", "Math", "92">> >>]

\* the in-memory database of validate_sql after its CREATE TABLE and INSERT
SandboxDb == [EmptyTableDb EXCEPT !.students = << <<"1", "Test", "Math", "85">> >>]

\* column names, as texts
StudentColumns == << <<"i","d">>, <<"n","a","m","e">>, <<"s","u","b","j","e","c","t">>, <<"g","r","a","d","e">> >>

StmtSelectAll == <<"S","E","L","E","C","T"," ","*"," ","F","R","O","M"," ","S","T","U","D","E","N","T","S">>
StmtSelectOne == <<"S","E","L","E","C","T"," ","1">>
StmtDrop == <<"D","R","O","P"," ","T","A","B","L","E"," ","S","T","U","D","E","N","T","S">>
StmtPragma == <<"P","R","A","G","M","A"," ","U","S","E","R","_","V","E","R","S","I","O","N","=","3">>
StmtSelectTwice == <<"S","E","L","E","C","T"," ","1",",","1">>
StmtSelectRandom == <<"S","E","L","E","C","T"," ","R","A","N","D","O","M","(",")">>
StmtSelectNone == StmtSelectAll \o <<" ","L","I","M","I","T"," ","0">>

\* the values random() can give in one call of the engine
Draws == {"17", "42"}
\* a draw for calls whose rows are not looked at
AnyDraw == CHOOSE x \in Draws : TRUE

\* the characters that open a quoted name or literal (single quote, backquote)
QuoteChars == {"'", "~"}

\* q starts with the quote character ch: the position of the quote that closes it
\* (a doubled quote character is an escaped one), 0 if it is never closed
RECURSIVE QuoteEnd(_, _, _)
QuoteEnd(q, ch, pos) ==
    IF pos > Len(q) THEN 0
    ELSE IF q[pos] # ch THEN QuoteEnd(q, ch, pos + 1)
    ELSE IF pos + 1 <= Len(q) /\ q[pos + 1] = ch THEN QuoteEnd(q, ch, pos + 2)
    ELSE pos

\* the text a closed quoted token q denotes
RECURSIVE Unquote(_, _, _)
Unquote(q, ch, pos) ==
    IF pos >= Len(q) THEN <<>>
    ELSE IF q[pos] = ch THEN <<ch>> \o Unquote(q, ch, pos + 2)
    ELSE <<q[pos]>> \o Unquote(q, ch, pos + 1)

\* cursor.execute(stmt) followed by cursor.fetchall() on database d.  The engine is a
\* library: it is modelled by the statements the replies can contain.  Keywords and
\* names are case-insensitive, surrounding whitespace and one closing ";" are allowed,
\* a SELECT may end with one quoted token, which names its column (SELECT 1) or its
\* table (SELECT *), a second statement is refused, anything else does not parse.
\* columns is cursor.description (None for a statement that returns no rows); db is
\* the database afterwards (DDL and PRAGMA take effect at once, no commit is needed).
\* draw is what random() gives in this call; drew tells whether it was called.  A
\* result column is named by the text of its expression unless a quoted token
\* renames it.
EngineRun(body, u, token, d, draw) ==
    LET quoted == token # <<>>
        fail(msg) ==
            [ok |-> FALSE, err |-> msg, columns |-> None, rows |-> <<>>, db |-> d, drew |-> FALSE]
        done(cols, rows, d2) ==
            [ok |-> TRUE, err |-> "", columns |-> cols, rows |-> rows, db |-> d2, drew |-> FALSE]
        named(text) == IF quoted THEN Unquote(token, token[1], 2) ELSE text
    IN  IF quoted /\ QuoteEnd(token, token[1], 2) # Len(token) THEN fail("unrecognized token")
        ELSE IF u = StmtSelectOne THEN done(Some(<<named(<<"1">>)>>), << <<"1">> >>, d)
        ELSE IF u = StmtSelectTwice THEN done(Some(<<<<"1">>, named(<<"1">>)>>), << <<"1", "1">> >>, d)
        ELSE IF u = StmtSelectRandom THEN
            [ done(Some(<<named(SubSeq(body, Len(kwSELECT) + 2, Len(body)))>>), << <<draw>> >>, d)
                EXCEPT !.drew = TRUE ]
        ELSE IF u = StmtSelectAll THEN
            IF "students" \in d.tables THEN done(Some(StudentColumns), d.students, d)
            ELSE fail("no such table: students")
        ELSE IF u = StmtSelectNone /\ ~quoted THEN
            IF "students" \in d.tables THEN done(Some(StudentColumns), <<>>, d)
            ELSE fail("no such table: students")
        ELSE IF quoted THEN fail("syntax error")
        ELSE IF u = StmtDrop THEN
            IF "students" \in d.tables
            THEN done(None, <<>>, [d EXCEPT !.tables = @ \ {"students"}, !.students = <<>>])
            ELSE fail("no such table: students")
        ELSE IF u = StmtPragma THEN done(None, <<>>, [d EXCEPT !.user_version = "3"])
        ELSE IF u = <<>> THEN done(None, <<>>, d)
        ELSE IF Contains(body, Semicolon) THEN fail("You can only execute one statement at a time.")
        ELSE fail("syntax error")

\* the statement without surrounding whitespace and closing ";"
StatementBody(stmt) ==
    LET t == Strip(stmt)
    IN  IF EndsWith(t, Semicolon) THEN RStrip(DropLast(t)) ELSE t

\* where the first quote character of body is, 0 if it has none
FirstQuote(body) ==
    LET quotes == { i \in DOMAIN body : body[i] \in QuoteChars }
    IN  IF quotes = {} THEN 0 ELSE CHOOSE i \in quotes : \A j \in quotes : i <= j

\* body from its first quote character on (empty without one), and what is before
\* it, case-folded
EngineTokens(body, first, d, draw) ==
    IF first = 0 THEN EngineRun(body, Upper(body), <<>>, d, draw)
    ELSE EngineRun(body, Upper(RStrip(SubSeq(body, 1, first - 1))), SubSeq(body, first, Len(body)), d, draw)

EngineBody(body, d, draw) == EngineTokens(body, FirstQuote(body), d, draw)

EngineExecute(stmt, d, draw) == EngineBody(StatementBody(stmt), d, draw)

(* ------------------------ node 2: validate_sql ------------------------ *)
\* variant: the generated text is used as it is, without strip()
StrippedQuery_raw(s) == s.sql_query[1]

\* sql_query = state.get("sql_query", "").strip()
StrippedQuery(s) == Strip(s.sql_query[1])

\* variant: every trailing ";" is removed (rstrip(';') in place of [:-1])
RECURSIVE StripSemicolon_all(_)
StripSemicolon_all(sql0) ==
    IF EndsWith(sql0, Semicolon) THEN StripSemicolon_all(Strip(DropLast(sql0))) ELSE sql0

\* if sql_query.endswith(';'): sql_query = sql_query[:-1].strip()
StripSemicolon(sql0) == IF EndsWith(sql0, Semicolon) THEN Strip(DropLast(sql0)) ELSE sql0

\* variant: the statement-kind check lets every statement through
IsSelect_any(sql_query) == TRUE

\* variant: SELECT is looked for anywhere in the statement
IsSelect_contains(sql_query) == Contains(Upper(sql_query), kwSELECT)

\* sql_query.upper().strip().startswith("SELECT")
IsSelect(sql_query) == StartsWith(Strip(Upper(sql_query)), kwSELECT)

\* variant: only the first keyword of the list is looked for
FirstDangerous_only_first(sql_upper) ==
    IF Contains(sql_upper, dangerous_keywords[1].chars) THEN 1 ELSE 0

\* variant: a hit is always reported with the first keyword of the list
FirstDangerous_names_first(sql_upper) ==
    IF \E i \in DOMAIN dangerous_keywords : Contains(sql_upper, dangerous_keywords[i].chars)
    THEN 1 ELSE 0

\* variant: the scan for dangerous keywords finds nothing
FirstDangerous_skipped(sql_upper) == 0

\* the first keyword of dangerous_keywords found in sql_upper, as an index; 0 if none
FirstDangerous(sql_upper) ==
    LET hits == { i \in DOMAIN dangerous_keywords : Contains(sql_upper, dangerous_keywords[i].chars) }
    IN  IF hits = {} THEN 0 ELSE CHOOSE i \in hits : \A j \in hits : i <= j

\* variant: the rejecting return leaves validation_result out
Rejected_no_flag(msg) == [error |-> Some(msg)]

\* the dict of every rejecting return
Rejected(msg) == [validation_result |-> Some(FALSE), error |-> Some(msg)]

\* variant: the accepting return does not write the cleaned statement back
Accepted_keeps_candidate(sql_query) == [validation_result |-> Some(TRUE), error |-> None]

\* the dict of the accepting return
Accepted(sql_query) == [sql_query |-> Some(sql_query), validation_result |-> Some(TRUE), error |-> None]

\* Result: the state returned, the keys the returned dict sets, the checks that were
\* evaluated, what became of the in-memory connection, the statements it was sent
\* after its CREATE TABLE and INSERT, and whether the call raised.
validate_sql(s) ==
    LET result(updates, checks, sandbox) ==
            [ state |-> Apply(s, updates), wrote |-> DOMAIN updates,
              checks |-> checks, sandbox |-> sandbox,
              tested |-> IF sandbox = "none" THEN <<>> ELSE <<StripSemicolon(StrippedQuery(s))>>,
              raised |-> FALSE ]
    IN  IF ErrorSet(s) THEN result(NoUpdates, <<>>, "none")
        ELSE IF s.sql_query = None THEN
            \* None.strip() is outside the try block
            [ state |-> s, wrote |-> {}, checks |-> <<>>, sandbox |-> "none",
              tested |-> <<>>, raised |-> TRUE ]
        ELSE
            LET sql0 == StrippedQuery(s)
                sql_query == StripSemicolon(sql0)
                sql_upper == Upper(sql_query)
                k == FirstDangerous(sql_upper)
                test == EngineExecute(sql_query, SandboxDb, AnyDraw)
            IN  IF sql0 = <<>> THEN
                    result(Rejected(<<"Empty SQL query generated">>), <<"empty">>, "none")
                ELSE IF ~IsSelect(sql_query) THEN
                    result(Rejected(<<"Only SELECT statements are allowed">>), <<"empty", "kind">>, "none")
                ELSE IF k # 0 THEN
                    result(Rejected(<<"Dangerous SQL keyword '", dangerous_keywords[k].name, "' detected">>),
                           <<"empty", "kind", "denylist">>, "none")
                ELSE IF ~test.ok THEN
                    result(Rejected(<<"SQL execution test failed: ", test.err>>),
                           <<"empty", "kind", "denylist", "sandbox">>, "closed")
                ELSE
                    result(Accepted(sql_query), <<"empty", "kind", "denylist", "sandbox">>, "closed")

\* variant: the edge tests "is not None" instead of truthiness
validation_condition_not_none(s) == IF s.validation_result # None THEN "valid" ELSE "invalid"

\* _validation_condition and _execution_condition: the key of the conditional edge
validation_condition(s) == IF IsValid(s) THEN "valid" ELSE "invalid"
execution_condition(s) == IF ErrorSet(s) THEN "error" ELSE "success"

(* ------------------------ node 3: execute_query ----------------------- *)
\* a Python dict: the sequence of <<key, value>> pairs in insertion order
DictSet(dct, k, v) ==
    IF \E i \in DOMAIN dct : dct[i][1] = k
    THEN [dct EXCEPT ![CHOOSE i \in DOMAIN dct : dct[i][1] = k] = <<k, v>>]
    ELSE Append(dct, <<k, v>>)

RECURSIVE DictZipFrom(_, _, _, _)
DictZipFrom(names, row, i, acc) ==
    IF i > Len(names) \/ i > Len(row) THEN acc
    ELSE DictZipFrom(names, row, i + 1, DictSet(acc, names[i], row[i]))

\* dict(zip(column_names, row))
DictZip(names, row) == DictZipFrom(names, row, 1, <<>>)

\* variant: the except branch reports an empty result instead of an error
ExecutionFailed_as_empty(msg) == [query_result |-> Some(<<>>), error |-> None]

\* variant: the except branch also marks the statement invalid
ExecutionFailed_invalidates(msg) ==
    [validation_result |-> Some(FALSE), error |-> Some(<<"Query execution error: ", msg>>)]

\* variant: the except branch also returns the rows fetched so far
ExecutionFailed_with_rows(msg) ==
    [query_result |-> Some(<<>>), error |-> Some(<<"Query execution error: ", msg>>)]

\* variant: a missing store is reported the way a failed statement is
StoreMissing_as_execution == [error |-> Some(<<"Query execution error: ", "unable to open database file">>)]

\* variant: the store-missing return also marks the statement invalid
StoreMissing_invalidates ==
    [ validation_result |-> Some(FALSE),
      error |-> Some(<<"Database not found: ", "student_grades.db", ". Please run create_database.py first.">>) ]

\* the dict of the store-missing return and of the except branch
StoreMissing == [error |-> Some(<<"Database not found: ", "student_grades.db", ". Please run create_database.py first.">>)]
ExecutionFailed(msg) == [error |-> Some(<<"Query execution error: ", msg>>)]

\* sqlite3.connect(path): the database the connection is on; a file that is not
\* there is created, empty
Connect(d) == IF d.exists THEN d ELSE EmptyFileDb

Reverse(seq) == [i \in 1..Len(seq) |-> seq[Len(seq) + 1 - i]]

\* variant: the rows are returned in an order that changes from call to call
connect_and_execute_unordered(s, d, draw) ==
    LET sql_query == IF s.sql_query = None THEN <<>> ELSE s.sql_query[1]
        r == EngineExecute(sql_query, Connect(d), draw)
        rows == IF draw = AnyDraw THEN r.rows ELSE Reverse(r.rows)
        failed == ~r.ok \/ r.columns = None
        msg == IF ~r.ok THEN r.err ELSE "'NoneType' object is not iterable"
        updates ==
            IF failed THEN ExecutionFailed(msg)
            ELSE [ query_result |-> Some([i \in 1..Len(rows) |-> DictZip(r.columns[1], rows[i])]),
                   error |-> None ]
    IN  [ state |-> Apply(s, updates), wrote |-> DOMAIN updates,
          db |-> r.db, opened |-> 1, closed |-> IF failed THEN 0 ELSE 1,
          sent |-> <<sql_query>>, created |-> IF d.exists THEN 0 ELSE 1, drew |-> r.drew ]

\* execute_query from sqlite3.connect on, d being the store at that moment.
\* Result: the state returned, the keys the returned dict sets, the database
\* afterwards, the connections opened and closed by the call, the statements sent,
\* the store files created, and whether random() was called.  r is what the engine
\* gave for the statement.
fetch_and_convert(s, sql_query, r, created) ==
    LET raise(msg) ==
            \* the except branch: conn.close() has not been reached
            [ state |-> Apply(s, ExecutionFailed(msg)), wrote |-> DOMAIN ExecutionFailed(msg),
              db |-> r.db, opened |-> 1, closed |-> 0, sent |-> <<sql_query>>,
              created |-> created, drew |-> r.drew ]
        updates ==
            [ query_result |-> Some([i \in 1..Len(r.rows) |-> DictZip(r.columns[1], r.rows[i])]),
              error |-> None ]
    IN  IF ~r.ok THEN raise(r.err)
        ELSE IF r.columns = None THEN raise("'NoneType' object is not iterable")
        ELSE [ state |-> Apply(s, updates), wrote |-> DOMAIN updates,
               db |-> r.db, opened |-> 1, closed |-> 1, sent |-> <<sql_query>>,
               created |-> created, drew |-> r.drew ]

\* sql_query = state.get("sql_query", "")
SqlQuery(s) == IF s.sql_query = None THEN <<>> ELSE s.sql_query[1]

execute_on(s, sql_query, d, draw) ==
    fetch_and_convert(s, sql_query, EngineExecute(sql_query, Connect(d), draw), IF d.exists THEN 0 ELSE 1)

connect_and_execute(s, d, draw) == execute_on(s, SqlQuery(s), d, draw)

\* execute_query up to the test of os.path.exists: the returns made before any
\* connection is opened
execute_query_quiet(s, updates, d) ==
    [ state |-> Apply(s, updates), wrote |-> DOMAIN updates, db |-> d,
      opened |-> 0, closed |-> 0, sent |-> <<>>, created |-> 0, drew |-> FALSE ]

\* the whole node, nothing else touching the store while it runs
execute_query(s, d, draw) ==
    IF ErrorSet(s) \/ ~IsValid(s) THEN execute_query_quiet(s, NoUpdates, d)
    ELSE IF ~d.exists THEN execute_query_quiet(s, StoreMissing, d)
    ELSE connect_and_execute(s, d, draw)

(* ---------------------- node 4: generate_response --------------------- *)
\* variant: with an error set the node returns the state as it is
generate_response_silent(s, reply) ==
    LET result(text, invoked) ==
            [ state |-> Apply(s, [response |-> Some(text)]), wrote |-> {"response"},
              invoked |-> invoked ]
    IN  IF ErrorSet(s) THEN [state |-> s, wrote |-> {}, invoked |-> FALSE]
        ELSE IF ~HasRows(s) THEN result(<<"No results found for your query.">>, FALSE)
        ELSE IF ~reply.raised THEN result(Strip(reply.content), TRUE)
        ELSE result(<<"Error generating response: ", reply.message>>, TRUE)

\* Result: the state returned, the keys the returned dict sets, and whether
\* self.llm.invoke was called.
generate_response(s, reply) ==
    LET result(text, invoked) ==
            [ state |-> Apply(s, [response |-> Some(text)]), wrote |-> {"response"},
              invoked |-> invoked ]
    IN  IF ErrorSet(s) THEN result(<<"Sorry, I encountered an error: ">> \o s.error[1], FALSE)
        ELSE IF ~HasRows(s) THEN result(<<"No results found for your query.">>, FALSE)
        ELSE IF ~reply.raised THEN result(Strip(reply.content), TRUE)
        ELSE result(<<"Error generating response: ", reply.message>>, TRUE)

(* ------------------------------ the graph ----------------------------- *)
Fields == {"query", "sql_query", "validation_result", "query_result", "response", "error"}

\* what a run has done (question asked, runs in progress when it started): nodes entered, writes per key, the sql_query the validator
\* received and the checks it made, in-memory and real connections opened and
\* closed, statements sent to the real store, synthesizer calls, and the real store
\* as it was when the run began; the entry point called, and the replies the
\* translator (kept where runs are compared) and the synthesizer gave (None while
\* not invoked); the statements the in-memory database was sent to test them; store
\* files the run created, what random() gave it, and whether the
\* store file was absent when the run connected
NoObs ==
    [ nodes |-> <<>>, writes |-> [f \in Fields |-> 0], candidate |-> None, checks |-> <<>>,
      sandboxOpened |-> 0, sandboxClosed |-> 0, connOpened |-> 0, connClosed |-> 0,
      sent |-> <<>>, synthCalls |-> 0, dbAtStart |-> AbsentDb,
      entry |-> "run", translated |-> None, synthesized |-> None,
      question |-> <<>>, startedDuring |-> {},
      created |-> 0, drawn |-> None, absentAtConnect |-> FALSE, tested |-> <<>> ]

\* the runs that are between their first node and END
InProgress == { o \in Runs : pc[o] \notin {"idle", "END", "aborted"} }

Entered(o, node, wrote) ==
    [o EXCEPT !.nodes = Append(@, node),
              !.writes = [f \in Fields |-> IF f \in wrote THEN @[f] + 1 ELSE @[f]]]

Init ==
    /\ state = [r \in Runs |-> initial_state(<<>>)]
    /\ pc = [r \in Runs |-> "idle"]
    /\ db \in {AbsentDb, EmptyFileDb, EmptyTableDb, SeededDb}
    /\ obs = [r \in Runs |-> NoObs]

\* run() / get_debug_info(): build initial_state and enter the graph at START
Run(r) ==
    /\ pc[r] = "idle"
    /\ \E q \in Questions :
         /\ state' = [state EXCEPT ![r] = initial_state(q)]
         /\ obs' = [obs EXCEPT ![r] =
                [NoObs EXCEPT !.dbAtStart = db, !.question = q, !.startedDuring = InProgress]]
    /\ pc' = [pc EXCEPT ![r] = "parse_query"]
    /\ UNCHANGED db

\* get_debug_info(): the same initial_state and the same graph as run()
Debug(r) ==
    /\ pc[r] = "idle"
    /\ \E q \in Questions :
         /\ state' = [state EXCEPT ![r] = initial_state(q)]
         /\ obs' = [obs EXCEPT ![r] =
                [NoObs EXCEPT !.dbAtStart = db, !.question = q, !.startedDuring = InProgress,
                              !.entry = "get_debug_info"]]
    /\ pc' = [pc EXCEPT ![r] = "parse_query"]
    /\ UNCHANGED db

\* variant: the pipeline state is kept on the analyzer, one for all runs
ParseStep_shared(r, reply, noted) ==
    /\ pc[r] = "parse_query"
    /\ LET res == parse_query(state[r], reply)
       IN  /\ state' = [o \in Runs |-> res.state]
           /\ obs' = [obs EXCEPT ![r] =
                  [Entered(@, "parse_query", res.wrote) EXCEPT !.translated = noted]]
    /\ pc' = [pc EXCEPT ![r] = "validate_sql"]
    /\ UNCHANGED db

\* the node parse_query of run r, the translator answering reply; noted is what the
\* history keeps of the reply
ParseStep(r, reply, noted) ==
    /\ pc[r] = "parse_query"
    /\ LET res == parse_query(state[r], reply)
       IN  /\ state' = [state EXCEPT ![r] = res.state]
           /\ obs' = [obs EXCEPT ![r] =
                  [Entered(@, "parse_query", res.wrote) EXCEPT !.translated = noted]]
    /\ pc' = [pc EXCEPT ![r] = "validate_sql"]
    /\ UNCHANGED db

\* the same, the reply kept in the history
Translate(r, reply) == ParseStep(r, reply, Some(reply))

Parse(r) == \E reply \in TranslatorReplies : ParseStep(r, reply, None)

Validate(r) ==
    /\ pc[r] = "validate_sql"
    /\ LET res == validate_sql(state[r])
       IN  /\ state' = [state EXCEPT ![r] = res.state]
           /\ obs' = [obs EXCEPT ![r] =
                  [Entered(@, "validate_sql", res.wrote) EXCEPT
                      !.candidate = state[r].sql_query,
                      !.checks = res.checks,
                      !.tested = @ \o res.tested,
                      !.sandboxOpened = @ + (IF res.sandbox = "none" THEN 0 ELSE 1),
                      !.sandboxClosed = @ + (IF res.sandbox = "closed" THEN 1 ELSE 0)]]
           /\ pc' = [pc EXCEPT ![r] =
                  IF res.raised THEN "aborted"
                  ELSE IF validation_condition(res.state) = "valid" THEN "execute_query"
                  ELSE "generate_response"]
    /\ UNCHANGED db

\* variant: the error edge goes back to the translator (a retry)
Execute_retry(r) ==
    /\ pc[r] = "execute_query"
    /\ \E draw \in Draws :
       LET res == execute_query(state[r], db, draw)
       IN  /\ state' = [state EXCEPT ![r] = res.state]
           /\ db' = res.db
           /\ obs' = [obs EXCEPT ![r] =
                  [Entered(@, "execute_query", res.wrote) EXCEPT
                      !.connOpened = @ + res.opened,
                      !.connClosed = @ + res.closed,
                      !.sent = @ \o res.sent,
                      !.created = @ + res.created,
                      !.drawn = IF res.drew THEN Some(draw) ELSE @]]
           /\ pc' = [pc EXCEPT ![r] =
                  IF execution_condition(res.state) = "success" THEN "generate_response"
                  ELSE "parse_query"]

Execute(r) ==
    /\ pc[r] = "execute_query"
    /\ \E draw \in Draws :
       LET res == execute_query(state[r], db, draw)
       IN  /\ state' = [state EXCEPT ![r] = res.state]
           /\ db' = res.db
           /\ obs' = [obs EXCEPT ![r] =
                  [Entered(@, "execute_query", res.wrote) EXCEPT
                      !.connOpened = @ + res.opened,
                      !.connClosed = @ + res.closed,
                      !.sent = @ \o res.sent,
                      !.created = @ + res.created,
                      !.drawn = IF res.drew THEN Some(draw) ELSE @]]
           /\ pc' = [pc EXCEPT ![r] =
                  IF execution_condition(res.state) = "success" THEN "generate_response"
                  ELSE "generate_response"]

Respond(r) ==
    /\ pc[r] = "generate_response"
    /\ \E reply \in SynthesizerReplies :
         LET res == generate_response(state[r], reply)
         IN  /\ state' = [state EXCEPT ![r] = res.state]
             /\ obs' = [obs EXCEPT ![r] =
                    [Entered(@, "generate_response", res.wrote) EXCEPT
                        !.synthCalls = @ + (IF res.invoked THEN 1 ELSE 0),
                        !.synthesized = IF res.invoked THEN Some(reply) ELSE @]]
    /\ pc' = [pc EXCEPT ![r] = "END"]
    /\ UNCHANGED db

Step(r) == Run(r) \/ Parse(r) \/ Validate(r) \/ Execute(r) \/ Respond(r)

\* one call of run() on one analyzer
Next == Step("r1")

Spec == Init /\ [][Next]_vars

\* what run() returns for the final state result of the graph
run_return(result) ==
    IF "response" \in DOMAIN result THEN result.response ELSE Some(<<"No response generated">>)

\* variant: final_response is read from the wrong key
get_debug_info_return_wrong_key(result) ==
    [ original_query |-> result.query,
      generated_sql |-> result.sql_query,
      validation_result |-> result.validation_result,
      query_results |-> result.query_result,
      final_response |-> result.error,
      error |-> result.error ]

\* what get_debug_info() returns for the final state result of the graph
get_debug_info_return(result) ==
    [ original_query |-> result.query,
      generated_sql |-> result.sql_query,
      validation_result |-> result.validation_result,
      query_results |-> result.query_result,
      final_response |-> result.response,
      error |-> result.error ]

\* self.graph.invoke(initial_state) with nothing else running: the final state for
\* question q, translator reply tr, synthesizer reply sr, store d and random() draw
Invoke(q, tr, sr, d, draw) ==
    LET s1 == parse_query(initial_state(q), tr).state
        s2 == validate_sql(s1).state
        s3 == IF validation_condition(s2) = "valid" THEN execute_query(s2, d, draw).state ELSE s2
    IN  generate_response(s3, sr).state

(* ------------- several calls on one analyzer, interleaved ------------- *)
\* the translator's replies in these calls: a part of TranslatorReplies
SessionTranslatorReplies ==
    { [raised |-> FALSE, content |-> c, message |-> ""] :
          c \in { SegSelectAll, SegSelectAll \o Semicolon, SegSelectOne, SegDrop, SegPragma,
                  SegSelectOne \o SegSpace \o SegQuoted, <<>>,
                  SegSelectTwice, SegSelectRandom } }
    \cup { [raised |-> TRUE, content |-> <<>>, message |-> "Connection error."] }

SessionParse(r) == \E reply \in SessionTranslatorReplies : Translate(r, reply)

\* each run is started by run() or by get_debug_info(); the nodes of the runs are
\* interleaved in any order (sequential calls are one of the orders)
SessionNext ==
    \E r \in Runs : Run(r) \/ Debug(r) \/ SessionParse(r) \/ Validate(r) \/ Execute(r) \/ Respond(r)

SessionSpec == Init /\ [][SessionNext]_vars

(* ------------------- validate_sql as a function ----------------------- *)
\* validate_sql called on a state whose sql_query is any text the language model can
\* produce (parse_query has not trimmed it) and whose error is None
ValidatorInit ==
    /\ \E c \in Candidates : \E q \in Questions :
         state = [r \in Runs |-> IF r = "r1"
                                 THEN [initial_state(q) EXCEPT !.sql_query = Some(c)]
                                 ELSE initial_state(<<>>)]
    /\ pc = [r \in Runs |-> IF r = "r1" THEN "validate_sql" ELSE "idle"]
    /\ db = SeededDb
    /\ obs = [r \in Runs |-> [NoObs EXCEPT !.dbAtStart = SeededDb]]

ValidatorNext == Validate("r1")

ValidatorSpec == ValidatorInit /\ [][ValidatorNext]_vars

(* ------- one call of run() while another process works on the store file ------- *)
\* execute_query up to and including the test of os.path.exists: it returns if the
\* state is not to be executed or the file is not there, and goes on to connect
\* otherwise
ExecuteCheck(r) ==
    /\ pc[r] = "execute_query"
    /\ IF ErrorSet(state[r]) \/ ~IsValid(state[r]) \/ ~db.exists
       THEN LET res == execute_query(state[r], db, AnyDraw)
            IN  /\ state' = [state EXCEPT ![r] = res.state]
                /\ obs' = [obs EXCEPT ![r] = Entered(@, "execute_query", res.wrote)]
                /\ pc' = [pc EXCEPT ![r] = "generate_response"]
       ELSE /\ pc' = [pc EXCEPT ![r] = "execute_query_connect"]
            /\ UNCHANGED <<state, obs>>
    /\ UNCHANGED db

\* execute_query from sqlite3.connect to its return, on the store as it is now
ExecuteConnect(r) ==
    /\ pc[r] = "execute_query_connect"
    /\ \E draw \in Draws :
       LET res == connect_and_execute(state[r], db, draw)
       IN  /\ state' = [state EXCEPT ![r] = res.state]
           /\ db' = res.db
           /\ obs' = [obs EXCEPT ![r] =
                  [Entered(@, "execute_query", res.wrote) EXCEPT
                      !.connOpened = @ + res.opened,
                      !.connClosed = @ + res.closed,
                      !.sent = @ \o res.sent,
                      !.created = @ + res.created,
                      !.drawn = IF res.drew THEN Some(draw) ELSE @,
                      !.absentAtConnect = ~db.exists]]
           /\ pc' = [pc EXCEPT ![r] = "generate_response"]

\* the other process: create_database() removes the file if it is there, creates
\* it again by connecting, creates the table and fills it; the first step is also
\* what any process removing the file does
RemoveStore == db.exists /\ db' = AbsentDb /\ UNCHANGED <<state, pc, obs>>
CreateStore == ~db.exists /\ db' = EmptyFileDb /\ UNCHANGED <<state, pc, obs>>
CreateTable == db = EmptyFileDb /\ db' = EmptyTableDb /\ UNCHANGED <<state, pc, obs>>
SeedStore == db = EmptyTableDb /\ db' = SeededDb /\ UNCHANGED <<state, pc, obs>>

RaceStep(r) ==
    Run(r) \/ SessionParse(r) \/ Validate(r) \/ ExecuteCheck(r) \/ ExecuteConnect(r) \/ Respond(r)

RaceNext == RaceStep("r1") \/ RemoveStore \/ CreateStore \/ CreateTable \/ SeedStore

RaceSpec == Init /\ [][RaceNext]_vars

(* =============================== claims ============================== *)
Ran(r, node) == \E i \in DOMAIN obs[r].nodes : obs[r].nodes[i] = node
LastNode(r) == IF obs[r].nodes = <<>> THEN "" ELSE obs[r].nodes[Len(obs[r].nodes)]

\* the validator of run r has just returned, and it was given the statement c
JustValidated(r) == LastNode(r) = "validate_sql" /\ obs[r].candidate # None
\* the validator of run r has returned at some point, given a statement
Validated(r) == Ran(r, "validate_sql") /\ obs[r].candidate # None
Candidate(r) == obs[r].candidate[1]

\* c contains a keyword of the denylist, in any letter case
HasDangerous(c) == \E i \in DOMAIN dangerous_keywords : Contains(Upper(c), dangerous_keywords[i].chars)
\* c, trimmed and case-folded, begins with SELECT
BeginsWithSelect(c) == StartsWith(Upper(Strip(c)), kwSELECT)

OnlySelectMsg == <<"Only SELECT statements are allowed">>
EmptyMsg == <<"Empty SQL query generated">>
DangerousMsg(i) == <<"Dangerous SQL keyword '", dangerous_keywords[i].name, "' detected">>

\* C1: the execute stage is entered, and the real store is opened or sent a
\* statement, only in a run whose validator accepted (validation_result true and no
\* error on entry to execute_query); a run whose validator did not accept goes from
\* the validator to generate_response and never opens the real store.
C1_ExecuteOnlyIfAccepted ==
    \A r \in Runs :
        /\ pc[r] = "execute_query" => IsValid(state[r]) /\ ~ErrorSet(state[r])
        /\ (obs[r].connOpened > 0 \/ obs[r].sent # <<>> \/ Ran(r, "execute_query"))
              => Ran(r, "validate_sql") /\ IsValid(state[r])
        /\ (Ran(r, "validate_sql") /\ ~IsValid(state[r]))
              => /\ pc[r] \in {"generate_response", "END"}
                 /\ ~Ran(r, "execute_query")
                 /\ obs[r].connOpened = 0 /\ obs[r].sent = <<>>

\* an accepted statement has been sent to the real store
C1_Witness ==
    \E r \in Runs : obs[r].sent # <<>> /\ obs[r].connOpened = 1 /\ IsValid(state[r])

\* C2: from the moment a run starts, the real store (file, tables, rows, header) is
\* what it was when the run started.
C2_StoreUnchanged ==
    \A r \in Runs : pc[r] # "idle" => db = obs[r].dbAtStart

\* a finished run that queried a store holding rows
C2_Witness ==
    \E r \in Runs : pc[r] = "END" /\ obs[r].sent # <<>> /\ db = SeededDb

\* C3: no node raises out of the graph: a run is always idle, at one of the four
\* nodes (each of which then runs, whatever state it is given) or at END; no node is
\* run twice, so at most four run; and at END response is set.  So every run reaches
\* END with a response, whatever the translator, validator, store and synthesizer do.
C3_AlwaysResponds ==
    \A r \in Runs :
        /\ pc[r] \in {"idle", "parse_query", "validate_sql", "execute_query", "generate_response", "END"}
        /\ \A i, j \in DOMAIN obs[r].nodes : obs[r].nodes[i] = obs[r].nodes[j] => i = j
        /\ pc[r] \notin {"idle", "END"} => ~Ran(r, pc[r])
        /\ pc[r] = "END" => state[r].response # None /\ LastNode(r) = "generate_response"

\* a run that ended although the synthesizer raised
C3_Witness ==
    \E r \in Runs :
        /\ pc[r] = "END" /\ obs[r].synthCalls = 1
        /\ state[r].response = Some(<<"Error generating response: ", "Rate limit reached.">>)

\* C4: response is None and unwritten before END; at END it is set, was written
\* exactly once, and the node that wrote it is generate_response, the last node run.
C4_FinalTextOnce ==
    \A r \in Runs :
        /\ pc[r] # "END" => state[r].response = None /\ obs[r].writes["response"] = 0
        /\ pc[r] = "END" => /\ state[r].response # None
                            /\ obs[r].writes["response"] = 1
                            /\ LastNode(r) = "generate_response"

\* a run that ended with an error message as its response
C4_Witness ==
    \E r \in Runs : pc[r] = "END" /\ ErrorSet(state[r]) /\ state[r].response # None

\* C5 as stated: in every completed run validation_result has been assigned, once.
C5_Original ==
    \A r \in Runs :
        pc[r] = "END" => state[r].validation_result # None /\ obs[r].writes["validation_result"] = 1

TranslatorFailed(r) == Ran(r, "parse_query") /\ obs[r].writes["sql_query"] = 0

\* C5 amended: validation_result is written at most once in a run, by validate_sql;
\* a completed run whose translator succeeded has it assigned exactly once, to true
\* or false; a completed run whose translator failed has it still None.
C5_Amended ==
    \A r \in Runs :
        /\ obs[r].writes["validation_result"] <= 1
        /\ state[r].validation_result # None
              => Ran(r, "validate_sql") /\ obs[r].writes["validation_result"] = 1
        /\ (pc[r] = "END" /\ ~TranslatorFailed(r))
              => state[r].validation_result \in {Some(TRUE), Some(FALSE)}
        /\ (pc[r] = "END" /\ TranslatorFailed(r)) => state[r].validation_result = None

\* a completed run whose validator rejected, and whose value was kept to the end
C5_Witness ==
    \E r \in Runs :
        /\ pc[r] = "END" /\ ~TranslatorFailed(r)
        /\ state[r].validation_result = Some(FALSE)
        /\ obs[r].writes["validation_result"] = 1

\* C6: a statement that contains a denylisted keyword, in any letter case and
\* anywhere, is not accepted: validation_result is false.
C6_DenylistRejects ==
    \A r \in Runs :
        (Validated(r) /\ HasDangerous(Candidate(r))) => state[r].validation_result = Some(FALSE)

\* a SELECT whose only keyword is inside a quoted literal, in mixed case, rejected
C6_Witness ==
    \E r \in Runs :
        /\ Validated(r) /\ Candidate(r) = SegSelectOne \o SegSpace \o SegQuoted
        /\ state[r].validation_result = Some(FALSE)

\* C7 as stated: a statement that does not begin with SELECT is rejected with the
\* read-only reason.
C7_Original ==
    \A r \in Runs :
        (JustValidated(r) /\ ~BeginsWithSelect(Candidate(r)))
            => /\ state[r].validation_result = Some(FALSE)
               /\ state[r].error = Some(OnlySelectMsg)

\* C7 amended: a statement that is not empty after trimming and does not begin with
\* SELECT is rejected with the read-only reason.
C7_Amended ==
    \A r \in Runs :
        (JustValidated(r) /\ Strip(Candidate(r)) # <<>> /\ ~BeginsWithSelect(Candidate(r)))
            => /\ state[r].validation_result = Some(FALSE)
               /\ state[r].error = Some(OnlySelectMsg)

\* DROP TABLE students rejected with the read-only reason
C7_Witness ==
    \E r \in Runs :
        /\ JustValidated(r) /\ Candidate(r) = SegDrop
        /\ state[r].validation_result = Some(FALSE) /\ state[r].error = Some(OnlySelectMsg)

\* C8 as stated: whenever the statement contains a denylisted keyword, the reason
\* names a keyword the statement contains.
C8_Original ==
    \A r \in Runs :
        (JustValidated(r) /\ HasDangerous(Candidate(r)))
            => \E i \in DOMAIN dangerous_keywords :
                   /\ Contains(Upper(Candidate(r)), dangerous_keywords[i].chars)
                   /\ state[r].error = Some(DangerousMsg(i))

\* C8 amended: whenever a statement that begins with SELECT contains a denylisted
\* keyword, the reason names a keyword the statement contains.
C8_Amended ==
    \A r \in Runs :
        (JustValidated(r) /\ BeginsWithSelect(Candidate(r)) /\ HasDangerous(Candidate(r)))
            => \E i \in DOMAIN dangerous_keywords :
                   /\ Contains(Upper(Candidate(r)), dangerous_keywords[i].chars)
                   /\ state[r].error = Some(DangerousMsg(i))

\* a SELECT with update inside a literal, rejected with a reason naming UPDATE
C8_Witness ==
    \E r \in Runs :
        /\ JustValidated(r) /\ Candidate(r) = SegSelectOne \o SegSpace \o SegQuoted
        /\ state[r].error = Some(<<"Dangerous SQL keyword '", "UPDATE", "' detected">>)

\* C9: an empty or whitespace-only statement is rejected with the empty-query
\* reason; only the emptiness check is made and no in-memory database is opened.
C9_EmptyRejectedFirst ==
    \A r \in Runs :
        (Validated(r) /\ Strip(Candidate(r)) = <<>>)
            => /\ state[r].validation_result = Some(FALSE)
               /\ state[r].error = Some(EmptyMsg)
               /\ obs[r].checks = <<"empty">>
               /\ obs[r].sandboxOpened = 0

\* a statement of two spaces, rejected as empty
C9_Witness ==
    \E r \in Runs :
        /\ Validated(r) /\ Candidate(r) = SegSpace \o SegSpace
        /\ state[r].error = Some(EmptyMsg)

\* C10 as stated: the accepted statement is the candidate with one trailing ";"
\* removed when it ends with one, and the candidate itself otherwise.
C10_Original ==
    \A r \in Runs :
        (JustValidated(r) /\ IsValid(state[r]))
            => state[r].sql_query =
                   Some(IF EndsWith(Candidate(r), Semicolon) THEN DropLast(Candidate(r)) ELSE Candidate(r))

\* C10 amended: the accepted statement is the trimmed candidate, with one trailing
\* ";" and the whitespace before it removed when the trimmed candidate ends with one.
C10_Amended ==
    \A r \in Runs :
        (JustValidated(r) /\ IsValid(state[r]))
            => LET c == Strip(Candidate(r))
               IN  state[r].sql_query = Some(IF EndsWith(c, Semicolon) THEN RStrip(DropLast(c)) ELSE c)

\* "select 1;;" accepted as "select 1;": one separator removed, the other kept
C10_Witness ==
    \E r \in Runs :
        /\ JustValidated(r) /\ IsValid(state[r])
        /\ Candidate(r) = SegSelectOne \o Semicolon \o Semicolon
        /\ state[r].sql_query = Some(SegSelectOne \o Semicolon)

\* a step of run r that runs the node named node
NodeStep(r, node) == pc[r] = node /\ pc'[r] # node

\* C11: a step that runs a node other than generate_response from a state whose
\* error is set returns the state it received, field for field, makes no check,
\* creates no in-memory database, opens no connection to the real store, sends it
\* nothing and leaves it as it was.
C11_FailurePassThrough ==
    [][\A r \in Runs : \A node \in {"parse_query", "validate_sql", "execute_query"} :
          (NodeStep(r, node) /\ ErrorSet(state[r]))
              => /\ state'[r] = state[r]
                 /\ db' = db
                 /\ obs'[r].checks = <<>>
                 /\ obs'[r].sandboxOpened = obs[r].sandboxOpened
                 /\ obs'[r].connOpened = obs[r].connOpened
                 /\ obs'[r].sent = obs[r].sent]_vars

\* the validator has just returned in a run whose translator failed
C11_Witness ==
    \E r \in Runs :
        /\ LastNode(r) = "validate_sql" /\ TranslatorFailed(r)
        /\ state[r].error = Some(<<"Error parsing query: ", "Connection error.">>)
        /\ state[r].validation_result = None
        /\ obs[r].sandboxOpened = 0

\* C12: the synthesizer is called only by the step that runs generate_response, and
\* by that step exactly when, on entry, error is not set and query_result is a
\* non-empty list; with error set the response is the apology followed by the error
\* text, and with error not set and query_result None or empty it is the fixed
\* no-results message.
C12_SynthesizerIffRows ==
    [][\A r \in Runs :
          LET s == state[r]
              rows == s.query_result # None /\ s.query_result[1] # <<>>
              called == obs'[r].synthCalls = obs[r].synthCalls + 1
          IN  /\ ~NodeStep(r, "generate_response") => obs'[r].synthCalls = obs[r].synthCalls
              /\ NodeStep(r, "generate_response") =>
                    /\ called <=> (~ErrorSet(s) /\ rows)
                    /\ ~called => obs'[r].synthCalls = obs[r].synthCalls
                    /\ ErrorSet(s) =>
                          state'[r].response = Some(<<"Sorry, I encountered an error: ">> \o s.error[1])
                    /\ (~ErrorSet(s) /\ ~rows) =>
                          state'[r].response = Some(<<"No results found for your query.">>)]_vars

\* a run that read an empty table: rows is the empty list, the synthesizer was not
\* called and the response is the no-results message
C12_Witness ==
    \E r \in Runs :
        /\ pc[r] = "END" /\ state[r].query_result = Some(<<>>) /\ state[r].error = None
        /\ obs[r].synthCalls = 0
        /\ state[r].response = Some(<<"No results found for your query.">>)

\* what went wrong in run r
ValidatorRejected(r) == Ran(r, "validate_sql") /\ state[r].validation_result = Some(FALSE)
StoreAbsent(r) == Ran(r, "execute_query") /\ obs[r].connOpened = 0
StatementFailed(r) ==
    /\ obs[r].sent # <<>>
    /\ LET e == EngineExecute(obs[r].sent[1], obs[r].dbAtStart, AnyDraw) IN ~e.ok \/ e.columns = None
SynthesizerFailed(r) == obs[r].synthesized # None /\ obs[r].synthesized[1].raised
\* get_debug_info has returned in run r
DebugDone(r) == pc[r] = "END" /\ obs[r].entry = "get_debug_info"

\* C13 as stated: whichever of the five errors occurred, the state get_debug_info
\* returns has error set.
C13_Original ==
    \A r \in Runs :
        (DebugDone(r) /\ (TranslatorFailed(r) \/ ValidatorRejected(r) \/ StoreAbsent(r)
                            \/ StatementFailed(r) \/ SynthesizerFailed(r)))
            => get_debug_info_return(state[r]).error # None

\* C13 amended: when the translator failed, the validator rejected, the store was
\* absent or the statement failed on the real store, the state get_debug_info
\* returns has error set to a non-empty text; when the synthesizer failed, error is
\* None and the failure text is in final_response.
C13_Amended ==
    \A r \in Runs :
        LET info == get_debug_info_return(state[r])
        IN  /\ (DebugDone(r) /\ (TranslatorFailed(r) \/ ValidatorRejected(r) \/ StoreAbsent(r)
                                    \/ StatementFailed(r)))
                  => info.error # None /\ info.error[1] # <<>>
            /\ (DebugDone(r) /\ SynthesizerFailed(r))
                  => /\ info.error = None
                     /\ info.final_response =
                            Some(<<"Error generating response: ", obs[r].synthesized[1].message>>)

\* get_debug_info returned after the statement failed on a store without the table
C13_Witness ==
    \E r \in Runs :
        /\ DebugDone(r) /\ StatementFailed(r)
        /\ get_debug_info_return(state[r]).error =
               Some(<<"Query execution error: ", "no such table: students">>)

\* C14 as stated: between the steps of a run, every connection execute_query has
\* opened to the real store has been closed by it (conn.close() was called), on the
\* success path and on the failure path alike.
C14_Original ==
    \A r \in Runs : obs[r].connClosed = obs[r].connOpened

\* C15: when execute_query has run in a run that found no store file, it opened no
\* connection and sent no statement, error is the database-not-found text (which
\* does not begin like a query-execution error), and query_result is still None; and
\* when that run has ended, response is the apology followed by that text.
C15_StoreAbsentReported ==
    \A r \in Runs :
        (Ran(r, "execute_query") /\ ~obs[r].dbAtStart.exists)
            => /\ obs[r].connOpened = 0 /\ obs[r].sent = <<>>
               /\ ~db.exists
               /\ state[r].error # None
               /\ state[r].error[1][1] = "Database not found: "
               /\ state[r].error[1][1] # "Query execution error: "
               /\ state[r].query_result = None
               /\ pc[r] \in {"generate_response", "END"}
               /\ pc[r] = "END" =>
                     state[r].response = Some(<<"Sorry, I encountered an error: ">> \o state[r].error[1])

\* a run that ended with the database-not-found text in its response
C15_Witness ==
    \E r \in Runs :
        /\ pc[r] = "END" /\ Ran(r, "execute_query") /\ ~db.exists
        /\ state[r].response =
               Some(<<"Sorry, I encountered an error: ", "Database not found: ", "student_grades.db",
                      ". Please run create_database.py first.">>)

\* runs a and b were given the same question, found the same store and got the same
\* reply from the translator and, where both asked it, from the synthesizer
SameInputs(a, b) ==
    /\ state[a].query = state[b].query
    /\ obs[a].dbAtStart = obs[b].dbAtStart
    /\ obs[a].translated = obs[b].translated
    /\ (obs[a].synthesized # None /\ obs[b].synthesized # None)
          => obs[a].synthesized = obs[b].synthesized

\* C16: when a call of run and a call of get_debug_info with the same inputs have
\* both returned, they ran the same nodes in the same order, called the synthesizer
\* equally often, and final_response of the one equals the string the other returned.
C16_DebugObservational ==
    \A a, b \in Runs :
        (/\ pc[a] = "END" /\ obs[a].entry = "run"
         /\ DebugDone(b)
         /\ SameInputs(a, b))
            => /\ obs[b].nodes = obs[a].nodes
               /\ obs[b].synthCalls = obs[a].synthCalls
               /\ run_return(state[a]) # None
               /\ get_debug_info_return(state[b]).final_response = run_return(state[a])

\* run and get_debug_info both returned the synthesizer's answer about the same rows
C16_Witness ==
    \E a, b \in Runs :
        /\ pc[a] = "END" /\ obs[a].entry = "run" /\ DebugDone(b) /\ SameInputs(a, b)
        /\ obs[a].synthCalls = 1 /\ obs[b].synthCalls = 1
        /\ run_return(state[a]) = Some(<<"A","l","i","c","e",":"," ","8","5">>)

\* the synthesizer's reply in run r (any reply, if it was not asked)
SynthesizedOr(r) ==
    IF obs[r].synthesized # None THEN obs[r].synthesized[1]
    ELSE [raised |-> FALSE, content |-> <<>>, message |-> ""]

\* what random() gave run r (any value, if it was not called)
DrawnOr(r) == IF obs[r].drawn # None THEN obs[r].drawn[1] ELSE AnyDraw

\* C17: with the nodes of the runs interleaved in any order, a run that has not
\* started has the state it was created with, whatever the other runs did, and a
\* run that has ended has the final state the graph gives, run alone, for its
\* question, its translator and synthesizer replies and the store it found.
C17_RunsIndependent ==
    \A r \in Runs :
        /\ pc[r] = "idle" => state[r] = initial_state(<<>>) /\ obs[r] = NoObs
        /\ pc[r] = "END" =>
              state[r] = Invoke(obs[r].question, obs[r].translated[1], SynthesizedOr(r),
                                obs[r].dbAtStart, DrawnOr(r))

\* two runs that overlapped and ended differently: one answered from the rows, the
\* other was rejected by the validator
C17_Witness ==
    \E a, b \in Runs :
        /\ a # b /\ pc[a] = "END" /\ pc[b] = "END"
        /\ a \in obs[b].startedDuring
        /\ obs[a].synthCalls = 1 /\ state[a].query_result # None
        /\ state[b].validation_result = Some(FALSE)
        /\ state[b].error = Some(OnlySelectMsg)

\* the two orders in which the nodes of a run can occur
NodeOrders ==
    { <<"parse_query", "validate_sql", "execute_query", "generate_response">>,
      <<"parse_query", "validate_sql", "generate_response">> }
IsPrefix(p, s) == Len(p) <= Len(s) /\ SubSeq(s, 1, Len(p)) = p

\* C18: the nodes a run has entered, followed by the node it will enter next, are the
\* beginning of parse_query, validate_sql, execute_query (optional), generate_response;
\* so no node is entered twice and none is returned to.  The real store is opened and
\* sent a statement at most once, and once a statement has been rejected or has
\* failed the run only goes on to generate_response and END.
C18_NoStageRevisited ==
    \A r \in Runs :
        LET upcoming == IF pc[r] \in {"idle", "END"} THEN obs[r].nodes ELSE Append(obs[r].nodes, pc[r])
        IN  /\ \E o \in NodeOrders : IsPrefix(upcoming, o)
            /\ pc[r] = "END" => obs[r].nodes \in NodeOrders
            /\ obs[r].connOpened <= 1 /\ Len(obs[r].sent) <= 1
            /\ obs[r].sandboxOpened <= 1 /\ obs[r].synthCalls <= 1
            /\ (Ran(r, "validate_sql") /\ state[r].error # None)
                  => pc[r] \in {"generate_response", "END"}

\* a run whose statement failed on the real store and which then went on to END
C18_Witness ==
    \E r \in Runs :
        /\ pc[r] = "END"
        /\ obs[r].nodes = <<"parse_query", "validate_sql", "execute_query", "generate_response">>
        /\ state[r].error = Some(<<"Query execution error: ", "no such table: students">>)

\* C19: in every state of a run, on entry to generate_response in particular, error
\* and query_result are not both set: with error set query_result is None, and with
\* query_result set (only execute_query sets it) error is None.
C19_ErrorOrRows ==
    \A r \in Runs :
        /\ state[r].error # None => state[r].query_result = None
        /\ state[r].query_result # None => state[r].error = None /\ Ran(r, "execute_query")

\* entry to generate_response with rows read from the store and no error
C19_Witness ==
    \E r \in Runs :
        /\ pc[r] = "generate_response" /\ state[r].error = None
        /\ state[r].query_result # None /\ Len(state[r].query_result[1]) = Len(SeededDb.students)

\* the keys each node may set
OwnFields(node) ==
    CASE node = "parse_query" -> {"sql_query", "error"}
      [] node = "validate_sql" -> {"sql_query", "validation_result", "error"}
      [] node = "execute_query" -> {"query_result", "error"}
      [] node = "generate_response" -> {"response"}

\* C20: a step that runs a node sets, in the dict it returns, only keys that belong
\* to that node, and every other field of the run's state has afterwards the value
\* it had before; query is in no node's dict and is, from the start of the run on,
\* the question that was asked.
C20_OwnFieldsOnly ==
    [][\A r \in Runs :
          /\ \A node \in {"parse_query", "validate_sql", "execute_query", "generate_response"} :
                NodeStep(r, node) =>
                    \A f \in Fields \ OwnFields(node) :
                        /\ state'[r][f] = state[r][f]
                        /\ obs'[r].writes[f] = obs[r].writes[f]
          /\ pc'[r] # "idle" => /\ state'[r].query = obs'[r].question
                                /\ obs'[r].writes["query"] = 0]_vars

\* a finished run in which each node set its keys: sql_query by two nodes, error
\* by three, the others by one, query by none
C20_Witness ==
    \E r \in Runs :
        /\ pc[r] = "END" /\ state[r].query = <<"What grades did Alice get?">>
        /\ obs[r].writes = [f \in Fields |->
               CASE f = "query" -> 0
                 [] f = "sql_query" -> 2
                 [] f = "error" -> 3
                 [] OTHER -> 1]

\* two runs that sent the real store the same statement, and both got rows
SameStatementTwice(a, b) ==
    /\ a # b
    /\ obs[a].sent # <<>> /\ obs[a].sent = obs[b].sent
    /\ obs[a].connClosed = 1 /\ obs[b].connClosed = 1
    /\ state[a].query_result # None /\ state[b].query_result # None

Normalized(c) ==
    LET trimmed == Strip(c)
    IN  IF EndsWith(trimmed, Semicolon) THEN Strip(DropLast(trimmed)) ELSE trimmed
\* what the checks of the validator say of the statement c, each taken alone
IsEmpty(c) == Strip(c) = <<>>
KindOk(c) == StartsWith(Upper(Normalized(c)), kwSELECT)
DenylistOk(c) == ~HasDangerous(Normalized(c))
SandboxRun(c) == EngineExecute(Normalized(c), SandboxDb, AnyDraw)
SandboxMsg(c) == <<"SQL execution test failed: ", SandboxRun(c).err>>

\* C22: the validator checks emptiness, drops the trailing separator, then checks
\* the statement kind, the denylist and the sandbox, and stops at the first check
\* that fails: a statement is accepted iff it is not empty, begins with SELECT once
\* normalized, holds no denylisted keyword and runs without error in the sandbox
\* (whatever the number of rows); a rejected statement carries the reason of the
\* first check, in that order, that fails.
C22_CheckOrder ==
    \A r \in Runs : Validated(r) =>
        LET c == Candidate(r)
            s == state[r]
        IN  /\ IsValid(s) <=> (~IsEmpty(c) /\ KindOk(c) /\ DenylistOk(c) /\ SandboxRun(c).ok)
            /\ IsValid(s) => obs[r].checks = <<"empty", "kind", "denylist", "sandbox">>
            /\ ~IsValid(s) => s.validation_result = Some(FALSE)
            /\ IsEmpty(c) => s.error = Some(EmptyMsg) /\ obs[r].checks = <<"empty">>
            /\ (~IsEmpty(c) /\ ~KindOk(c))
                  => s.error = Some(OnlySelectMsg) /\ obs[r].checks = <<"empty", "kind">>
            /\ (~IsEmpty(c) /\ KindOk(c) /\ ~DenylistOk(c))
                  => /\ \E i \in DOMAIN dangerous_keywords : s.error = Some(DangerousMsg(i))
                     /\ obs[r].checks = <<"empty", "kind", "denylist">>
            /\ (~IsEmpty(c) /\ KindOk(c) /\ DenylistOk(c) /\ ~SandboxRun(c).ok)
                  => /\ s.error = Some(SandboxMsg(c))
                     /\ obs[r].checks = <<"empty", "kind", "denylist", "sandbox">>

\* a statement that returns no row in the sandbox, accepted after the four checks
C22_Witness ==
    \E r \in Runs :
        /\ Validated(r) /\ Candidate(r) = SegSelectNone
        /\ SandboxRun(SegSelectNone).ok /\ SandboxRun(SegSelectNone).rows = <<>>
        /\ IsValid(state[r])
        /\ obs[r].checks = <<"empty", "kind", "denylist", "sandbox">>

\* C23: the in-memory database is created only for a statement that passed the
\* emptiness, statement-kind and denylist checks; it is closed when the validator
\* returns, whether the statement ran in it or failed; and when the validator
\* returns the real store has not been opened, sent a statement or changed.
C23_SandboxOnly ==
    \A r \in Runs : Validated(r) =>
        LET c == Candidate(r)
        IN  /\ obs[r].sandboxOpened = (IF ~IsEmpty(c) /\ KindOk(c) /\ DenylistOk(c) THEN 1 ELSE 0)
            /\ obs[r].sandboxClosed = obs[r].sandboxOpened
            /\ Len(obs[r].tested) = obs[r].sandboxOpened
            /\ JustValidated(r)
                  => /\ obs[r].connOpened = 0 /\ obs[r].sent = <<>> /\ obs[r].created = 0
                     /\ db = obs[r].dbAtStart

\* a statement that begins with SELECT and fails in the sandbox: the sandbox was
\* opened and closed, the reason is the engine's, the real store was left alone
C23_Witness ==
    \E r \in Runs :
        /\ JustValidated(r) /\ ~SandboxRun(Candidate(r)).ok
        /\ obs[r].sandboxOpened = 1 /\ obs[r].sandboxClosed = 1
        /\ state[r].error = Some(SandboxMsg(Candidate(r)))
        /\ obs[r].connOpened = 0 /\ db = obs[r].dbAtStart

\* the execute stage of run r returned rows; what the engine gave for its statement
Executed(r) == obs[r].connClosed = 1 /\ obs[r].sent # <<>> /\ state[r].query_result # None
Fetched(r) == EngineExecute(obs[r].sent[1], obs[r].dbAtStart, DrawnOr(r))

\* C24: on successful execution query_result holds one mapping per result row, in
\* result order, and each mapping has one entry per result column, keyed by the
\* column's name, in column order; also when two columns have the same name.
C24_Original ==
    \A r \in Runs : Executed(r) =>
        LET e == Fetched(r)
            rows == state[r].query_result[1]
        IN  /\ Len(rows) = Len(e.rows)
            /\ \A i \in DOMAIN rows :
                  /\ Len(rows[i]) = Len(e.columns[1])
                  /\ \A j \in DOMAIN rows[i] : rows[i][j] = <<e.columns[1][j], e.rows[i][j]>>

\* C25: the statement the execute stage sends to the real store is the normalized
\* statement that ran without error in the sandbox of the same run; sql_query is
\* that statement from the validator's acceptance to the execution, and the real
\* store is sent it once (not at all when the store file is absent).
C25_SentIsTested ==
    \A r \in Runs :
        /\ pc[r] = "execute_query"
              => /\ obs[r].tested # <<>> /\ state[r].sql_query = Some(obs[r].tested[1])
                 /\ SandboxRun(Candidate(r)).ok
                 /\ obs[r].sent = <<>>
        /\ Len(obs[r].sent) <= 1
        /\ obs[r].sent # <<>>
              => /\ obs[r].sent = obs[r].tested
                 /\ obs[r].sent[1] = Normalized(Candidate(r))
                 /\ state[r].sql_query = Some(obs[r].sent[1])
        /\ (Ran(r, "execute_query") /\ obs[r].dbAtStart.exists) => Len(obs[r].sent) = 1

\* "SELECT * FROM students;" was given, and the sandbox and then the real store
\* were sent "SELECT * FROM students"
C25_Witness ==
    \E r \in Runs :
        /\ pc[r] = "END" /\ Validated(r) /\ Candidate(r) = SegSelectAll \o Semicolon
        /\ obs[r].tested = <<SegSelectAll>> /\ obs[r].sent = <<SegSelectAll>>
        /\ obs[r].connClosed = 1

\* the reason with which the validator rejects the statement c
RejectionReasons(c) ==
    { EmptyMsg, OnlySelectMsg, SandboxMsg(c) } \cup { DangerousMsg(i) : i \in DOMAIN dangerous_keywords }
\* C26: in every state after the validator stage, validation_result false implies
\* error is set, with the validator's reason; validation_result true when the
\* validator returns implies error is absent; query_result set implies
\* validation_result true; and validation_result stays true when the execution on
\* the real store fails or the store is absent.
C26_StateInvariants ==
    \A r \in Runs : Validated(r) =>
        /\ state[r].validation_result = Some(FALSE)
              => /\ state[r].error # None
                 /\ state[r].error[1] \in RejectionReasons(Candidate(r))
        /\ (JustValidated(r) /\ state[r].validation_result = Some(TRUE)) => state[r].error = None
        /\ state[r].query_result # None => state[r].validation_result = Some(TRUE)
        /\ (StatementFailed(r) \/ StoreAbsent(r))
              => /\ state[r].validation_result = Some(TRUE)
                 /\ state[r].error # None /\ state[r].query_result = None

\* an accepted statement failed on the real store (an empty file): the run ended
\* with validation_result true and the error of the execution
C26_Witness ==
    \E r \in Runs :
        /\ pc[r] = "END" /\ Validated(r) /\ StatementFailed(r)
        /\ state[r].validation_result = Some(TRUE)
        /\ state[r].error = Some(<<"Query execution error: ", "no such table: students">>)

\* C27: the execute stage never creates the store file, whatever another process
\* does to the file meanwhile: if the file is absent when the stage connects, the
\* run creates no file and its error is the store-unavailable one, not a
\* query-execution error.
C27_Original ==
    \A r \in Runs :
        /\ obs[r].created = 0
        /\ obs[r].absentAtConnect
              => /\ state[r].error # None
                 /\ state[r].error[1][1] = "Database not found: "

====
